---- MODULE Spec2Model ----
(***************************************************************************)
(* Model of node::threadpool (src/src/node_threadpool.cc): TaskState,      *)
(* TaskQueue, Worker, Threadpool and the LibuvExecutor adapter.            *)
(*                                                                         *)
(* Every step that the code performs under one mutex is one action.  A     *)
(* worker's loop body is split at each lock release, so that cancel calls  *)
(* and other workers may interleave exactly where the code allows it.      *)
(*                                                                         *)
(* Spec     the Threadpool used through Threadpool::Post and TaskState     *)
(* SpecUV   the Threadpool used through the LibuvExecutor                  *)
(* SpecTS   TaskState objects alone, called by arbitrary threads           *)
(* LiveSpec Spec's pool with fairly scheduled worker threads               *)
(***************************************************************************)
EXTENDS Integers, Naturals, Sequences, FiniteSets, TLC

\* ---------------------------------------------------------------- bounds
NumWorkers == 1
NumTasks == 2

Workers == 1..NumWorkers
Tasks == 1..NumTasks
NoTask == 0

\* ------------------------------------------------------- TaskState::State
INITIAL == "INITIAL"
QUEUED == "QUEUED"
ASSIGNED == "ASSIGNED"
CANCELLED == "CANCELLED"
COMPLETED == "COMPLETED"
States == {INITIAL, QUEUED, ASSIGNED, CANCELLED, COMPLETED}

\* uv_executor_cancel return codes
UV_OK == "0"
UV_EINVAL == "UV_EINVAL"
UV_EBUSY == "UV_EBUSY"
CRASH == "crash"
NoRet == "none"

VARIABLES
  state,            \* TaskState::state_ of the TaskState made for each task
  queue,            \* TaskQueue::queue_
  outstanding_tasks,\* TaskQueue::outstanding_tasks_
  stopped,          \* TaskQueue::stopped_
  wpc,              \* position of each Worker::_Run thread
  wtask,            \* the unique_ptr<Task> a worker holds (NoTask = nullptr)
  submit_pc,        \* position of uv_executor_submit for each request
  push_ret,         \* what TaskQueue::Push returned for the task
  reserved,         \* req->reserved[0] # nullptr (the LibuvTaskData cookie)
  run_count,        \* number of LibuvTask::Run calls (req->work_cb)
  notify_count,     \* number of NotifyOfCompletion calls made for the task
  done_count,       \* number of executor done(req) notifications
  cancel_ret,       \* return code of the last uv_executor_cancel
  cancelled_from,   \* state a task was in when a cancel moved it to CANCELLED
  tp_pc,            \* position of Threadpool::~Threadpool
  joined,           \* number of workers already joined by ~Threadpool
  at_stop,          \* the tasks that were in queue_ when Stop() ran
  drain_pc,         \* position of a thread calling BlockingDrain
  ts_call,          \* last direct call on a TaskState: [op, arg, pre, ret]
  cancel_pc,        \* request whose uv_executor_cancel is past the cookie check
  per_isolate,      \* NodePlatform::per_isolate_ holds a runner for the isolate
  ref_count,        \* PerIsolatePlatformData::ref_count_
  flush_tasks,      \* PerIsolatePlatformData::flush_tasks_ # nullptr
  foreground_tasks, \* PerIsolatePlatformData::foreground_tasks_
  foreground_delayed_tasks, \* ...::foreground_delayed_tasks_
  scheduled_delayed_tasks,  \* ...::scheduled_delayed_tasks_ (armed timers)
  loop_pc,          \* position of the isolate's event-loop thread
  loop_caller,      \* who called FlushForegroundTasksInternal
  popped_tasks,     \* the local queue `tasks` of FlushForegroundTasksInternal
  did_work,         \* the local did_work of FlushForegroundTasksInternal
  flush_ret,        \* what the last FlushForegroundTasksInternal returned
  executed,         \* the foreground tasks run so far, in the order run
  fposted,          \* number of foreground tasks posted so far
  delayed_posted,   \* the tasks posted through PostDelayedTask
  regs,             \* number of RegisterIsolate calls made
  unregs,           \* number of UnregisterIsolate calls made
  flush_armed,      \* timers armed by the flush in progress
  flush_ran,        \* tasks run by the flush in progress
  post_seen,        \* a post was made since the last flush began
  prev_quiet,       \* no post between the previous flush's start and this one's
  late,             \* tasks pushed to foreground_tasks_ since the last PopAll
  pre_shutdown,     \* foreground tasks posted before Shutdown was entered
  dtor_done,        \* ~PerIsolatePlatformData ran for the removed runner
  earlier_posted,   \* the tasks posted before the present runner was made
  delay_in_seconds, \* a delay given to a PostDelayedTask, in milliseconds
  sched_timeout,    \* timeout ScheduleTask::Run gave to uv_timer_start
  flush_timeout,    \* timeout the foreground flush gave to uv_timer_start
  th_op,            \* the operation each thread is inside ("none" = outside)
  th_pos,           \* the next lock step of that operation
  th_held,          \* the mutexes each thread holds, in acquisition order
  sched_pc,         \* position of the DelayedTaskScheduler thread
  sched_tasks,      \* DelayedTaskScheduler::tasks_ (commands, oldest first)
  async_sent,       \* uv_async_send(&flush_tasks_) not yet delivered
  flush_closed,     \* StopTask::Run closed DelayedTaskScheduler::flush_tasks_
  timers,           \* DelayedTaskScheduler::timers_ (a timer = its task)
  sched_posted,     \* delayed tasks RunTask posted to the Threadpool
  sched_dropped,    \* delayed tasks StopTask::Run took and destroyed
  dnext,            \* number of PostDelayedTask calls on the scheduler
  stop_pushed,      \* DelayedTaskScheduler::Stop was called
  before_stop,      \* the tasks whose ScheduleTask was pushed before StopTask
  timer_task        \* the DelayedTask whose timer callback is running

\* Variables of neither the thread pool nor the isolate's runner.
delayvars == <<delay_in_seconds, sched_timeout, flush_timeout>>

lockvars == <<th_op, th_pos, th_held>>

schedvars == <<sched_pc, sched_tasks, async_sent, flush_closed, timers,
              sched_posted, sched_dropped, dnext, stop_pushed, before_stop>>

auxvars == <<delayvars, lockvars, schedvars, timer_task>>

runnervars == <<per_isolate, ref_count, flush_tasks, foreground_tasks,
            foreground_delayed_tasks, scheduled_delayed_tasks, loop_pc,
            loop_caller, popped_tasks, did_work, flush_ret, executed,
            fposted, delayed_posted, regs, unregs, flush_armed, flush_ran,
            post_seen, prev_quiet, late, pre_shutdown, dtor_done,
            earlier_posted>>

\* Everything the thread pool's steps leave alone.
pfvars == <<runnervars, auxvars>>

vars == <<state, queue, outstanding_tasks, stopped, wpc, wtask, submit_pc,
          push_ret, reserved, run_count, notify_count, done_count,
          cancel_ret, cancelled_from, tp_pc, joined, at_stop, drain_pc,
          ts_call, cancel_pc, pfvars>>

poolvars == <<queue, outstanding_tasks, stopped, wpc, wtask, submit_pc,
              push_ret, reserved, run_count, notify_count, done_count,
              cancel_ret, cancelled_from, tp_pc, joined, at_stop, drain_pc,
              cancel_pc>>

\* ------------------------------------------------------------- TaskState
ValidStateTransitionCancelledFinal(old_state, new_state) ==
  CASE old_state = INITIAL -> new_state = QUEUED \/ new_state = CANCELLED
    [] old_state = QUEUED -> new_state = ASSIGNED \/ new_state = CANCELLED
    [] old_state = ASSIGNED -> new_state = COMPLETED \/ new_state = CANCELLED
    [] old_state = CANCELLED -> FALSE
    [] old_state = COMPLETED -> FALSE

ValidStateTransitionAny(old_state, new_state) ==
  TRUE

ValidStateTransition(old_state, new_state) ==
  CASE old_state = INITIAL -> new_state = QUEUED \/ new_state = CANCELLED
    [] old_state = QUEUED -> new_state = ASSIGNED \/ new_state = CANCELLED
    [] old_state = ASSIGNED -> new_state = COMPLETED \/ new_state = CANCELLED
    [] old_state = CANCELLED -> new_state = COMPLETED
    [] old_state = COMPLETED -> FALSE

\* The state after TryUpdateState(new_state); it is also the value returned.
TryUpdateState(cur, new_state) ==
  IF ValidStateTransition(cur, new_state) THEN new_state ELSE cur

CancelAlwaysTrue(cur) ==
  TRUE

\* The value TaskState::Cancel returns when called in state cur.
Cancel(cur) ==
  TryUpdateState(cur, CANCELLED) = CANCELLED

\* The process is dead: a CHECK failed in a worker, or a cancel crashed.
Aborted ==
  \/ \E w \in Workers : wpc[w] = "abort"
  \/ cancel_ret = CRASH

\* ------------------------------------------------- platform, one isolate
\* Foreground tasks posted to the isolate's runner, numbered in the order of
\* their Push.
NumFTasks == 2
FTasks == 1..NumFTasks

\* RegisterIsolate calls made in one run.
MaxRegs == 2

\* Delays given to PostDelayedTask, in milliseconds (delay_in_seconds * 1000).
FgDelays == {400, 1500}

\* ref_count_ of a PerIsolatePlatformData just constructed.
InitialRefCount == 1

FlushDelayMillisTruncated(d) ==
  (d \div 1000) * 1000

\* static_cast<uint64_t>(delayed->timeout + 0.5) * 1000 of
\* FlushForegroundTasksInternal, for a delay of d milliseconds: the cast
\* truncates, the product is in milliseconds.
FlushDelayMillis(d) ==
  ((d + 500) \div 1000) * 1000

\* Threads taking the mutexes.
NumLockThreads == 2
LockThreads == 1..NumLockThreads

\* No delay given, no timer started.
NoTimer == -1

\* Delays, in milliseconds, given to PostDelayedTask when the rounding is
\* looked at.
MaxDelayMs == 2000

\* static_cast<uint64_t>(delay_in_seconds_ + 0.5) * 1000 of
\* ScheduleTask::Run, for a delay of d milliseconds.
ScheduleDelayMillis(d) ==
  ((d + 500) \div 1000) * 1000

\* NodePlatform and its per-isolate data before any isolate is registered.
InitPF ==
  /\ delay_in_seconds = NoTimer
  /\ sched_timeout = NoTimer
  /\ flush_timeout = NoTimer
  /\ th_op = [th \in LockThreads |-> NoRet]
  /\ th_pos = [th \in LockThreads |-> 1]
  /\ th_held = [th \in LockThreads |-> <<>>]
  /\ sched_pc = "unstarted"
  /\ sched_tasks = <<>>
  /\ async_sent = FALSE
  /\ flush_closed = FALSE
  /\ timers = {}
  /\ sched_posted = {}
  /\ sched_dropped = {}
  /\ dnext = 0
  /\ stop_pushed = FALSE
  /\ before_stop = {}
  /\ timer_task = NoTask
  /\ per_isolate = FALSE
  /\ ref_count = 0
  /\ flush_tasks = FALSE
  /\ foreground_tasks = <<>>
  /\ foreground_delayed_tasks = <<>>
  /\ scheduled_delayed_tasks = <<>>
  /\ loop_pc = "idle"
  /\ loop_caller = NoRet
  /\ popped_tasks = <<>>
  /\ did_work = FALSE
  /\ flush_ret = NoRet
  /\ executed = <<>>
  /\ fposted = 0
  /\ delayed_posted = {}
  /\ regs = 0
  /\ unregs = 0
  /\ flush_armed = 0
  /\ flush_ran = 0
  /\ post_seen = FALSE
  /\ prev_quiet = FALSE
  /\ late = {}
  /\ pre_shutdown = {}
  /\ dtor_done = FALSE
  /\ earlier_posted = {}

\* ------------------------------------------------------------------ Init
Init ==
  /\ state = [t \in Tasks |-> INITIAL]
  /\ queue = <<>>
  /\ outstanding_tasks = 0
  /\ stopped = FALSE
  /\ wpc = [w \in Workers |-> "pop"]
  /\ wtask = [w \in Workers |-> NoTask]
  /\ submit_pc = [t \in Tasks |-> "idle"]
  /\ push_ret = [t \in Tasks |-> NoRet]
  /\ reserved = [t \in Tasks |-> FALSE]
  /\ run_count = [t \in Tasks |-> 0]
  /\ notify_count = [t \in Tasks |-> 0]
  /\ done_count = [t \in Tasks |-> 0]
  /\ cancel_ret = NoRet
  /\ cancelled_from = [t \in Tasks |-> NoRet]
  /\ tp_pc = "running"
  /\ joined = 0
  /\ at_stop = {}
  /\ drain_pc = "idle"
  /\ ts_call = [op |-> NoRet, task |-> NoTask, arg |-> INITIAL,
                pre |-> INITIAL, ret |-> INITIAL]
  /\ cancel_pc = NoTask
  /\ InitPF


\* ------------------------------------------------------------- TaskQueue
PushIgnoresStop(t, cur) ==
  [ret |-> TRUE, st |-> TryUpdateState(cur, QUEUED),
   q |-> Append(queue, t), n |-> outstanding_tasks + 1]

PushFront(t, cur) ==
  IF stopped
    THEN [ret |-> FALSE, st |-> cur, q |-> queue, n |-> outstanding_tasks]
    ELSE [ret |-> TRUE, st |-> TryUpdateState(cur, QUEUED),
          q |-> <<t>> \o queue, n |-> outstanding_tasks + 1]

\* TaskQueue::Push on a task whose TaskState is in state cur: the queue
\* fields afterwards and the value returned.  TryUpdateState(QUEUED) is
\* called with the queue lock held.
Push(t, cur) ==
  IF stopped
    THEN [ret |-> FALSE, st |-> cur, q |-> queue, n |-> outstanding_tasks]
    ELSE [ret |-> TRUE, st |-> TryUpdateState(cur, QUEUED),
          q |-> Append(queue, t), n |-> outstanding_tasks + 1]

\* TaskQueue::BlockingPop may return: the queue is non-empty or stopped.
BlockingPopReady ==
  ~(queue = <<>> /\ ~stopped)

\* What TaskQueue::BlockingPop returns once it may (NoTask = nullptr).
BlockingPopResult ==
  IF queue = <<>> THEN NoTask ELSE Head(queue)

\* TaskQueue::NotifyOfCompletion: the counter afterwards.
NotifyOfCompletion(n) ==
  n - 1

\* ---------------------------------------------------------- LibuvExecutor
\* uv_executor_submit up to the return of Threadpool::Post: the LibuvTask
\* constructor clears req->reserved[0], Post makes a fresh TaskState
\* (INITIAL) and pushes the task.  Post ignores what Push returns; a
\* rejected task is destroyed by Push's by-value parameter, so ~LibuvTask
\* runs (clears reserved[0], calls done).  uv_queue_work and uv_cancel are
\* loop-thread calls, so one submit or cancel is in progress at a time and
\* requests are numbered in submission order.
SubmitPost(t) ==
  /\ ~Aborted
  /\ tp_pc # "destroyed"
  /\ cancel_pc = NoTask
  /\ submit_pc[t] = "idle"
  /\ \A u \in Tasks : u < t => submit_pc[u] = "done"
  /\ LET r == Push(t, INITIAL) IN
       /\ state' = [state EXCEPT ![t] = r.st]
       /\ queue' = r.q
       /\ outstanding_tasks' = r.n
       /\ push_ret' = [push_ret EXCEPT ![t] = IF r.ret THEN "true" ELSE "false"]
       /\ done_count' = [done_count EXCEPT ![t] = IF r.ret THEN @ ELSE @ + 1]
  /\ reserved' = [reserved EXCEPT ![t] = FALSE]
  /\ submit_pc' = [submit_pc EXCEPT ![t] = "posted"]
  /\ UNCHANGED <<stopped, wpc, wtask, run_count, notify_count, cancel_ret,
                 cancelled_from, tp_pc, joined, at_stop, drain_pc, ts_call,
                 cancel_pc>>
  /\ UNCHANGED pfvars

\* uv_executor_submit after Post returned: store the cookie in the request.
SubmitStore(t) ==
  /\ ~Aborted
  /\ submit_pc[t] = "posted"
  /\ submit_pc' = [submit_pc EXCEPT ![t] = "done"]
  /\ reserved' = [reserved EXCEPT ![t] = TRUE]
  /\ UNCHANGED <<state, queue, outstanding_tasks, stopped, wpc, wtask,
                 push_ret, run_count, notify_count, done_count, cancel_ret,
                 cancelled_from, tp_pc, joined, at_stop, drain_pc, ts_call,
                 cancel_pc>>
  /\ UNCHANGED pfvars

CancelCodeBusyWhenRunning(cur) ==
  IF cur \in {ASSIGNED, COMPLETED} THEN UV_EBUSY ELSE UV_OK

\* uv_executor_cancel, lines 258-262: the code returned for what
\* LibuvExecutor::Cancel finds in the TaskState.
CancelCode(cur) ==
  IF Cancel(cur) THEN UV_OK ELSE UV_EBUSY

\* uv_executor_cancel(req), called by the libuv user once submit returned:
\* the test of req->reserved[0].  Without a cookie the call returns EINVAL.
\* reserved[0] is read with no lock while a worker may run ~LibuvTask.
CancelCheck(t) ==
  /\ ~Aborted
  /\ cancel_pc = NoTask
  /\ \A u \in Tasks : submit_pc[u] # "posted"
  /\ submit_pc[t] = "done"
  /\ IF reserved[t]
       THEN cancel_pc' = t /\ UNCHANGED cancel_ret
       ELSE cancel_ret' = UV_EINVAL /\ UNCHANGED cancel_pc
  /\ UNCHANGED <<state, queue, outstanding_tasks, stopped, wpc, wtask,
                 submit_pc, push_ret, reserved, run_count, notify_count,
                 done_count, cancelled_from, tp_pc, joined, at_stop,
                 drain_pc, ts_call>>
  /\ UNCHANGED pfvars

\* uv_executor_cancel(req), the rest: task_data = req->reserved[0];
\* Cancel(task_data->state_).  If ~LibuvTask freed the cookie since the
\* test, this reads freed memory (or a null pointer): the call crashes or
\* returns either code.
CancelDeref(t) ==
  /\ ~Aborted
  /\ cancel_pc = t
  /\ cancel_pc' = NoTask
  /\ IF reserved[t]
       THEN /\ cancel_ret' = CancelCode(state[t])
            /\ state' = [state EXCEPT ![t] = TryUpdateState(@, CANCELLED)]
            /\ cancelled_from' =
                 [cancelled_from EXCEPT ![t] =
                    IF state'[t] # state[t] THEN state[t] ELSE @]
       ELSE /\ cancel_ret' \in {UV_OK, UV_EBUSY, CRASH}
            /\ UNCHANGED <<state, cancelled_from>>
  /\ UNCHANGED <<queue, outstanding_tasks, stopped, wpc, wtask, submit_pc,
                 push_ret, reserved, run_count, notify_count, done_count,
                 tp_pc, joined, at_stop, drain_pc, ts_call>>
  /\ UNCHANGED pfvars

\* ------------------------------------------------- Threadpool::Post users
\* Threadpool::Post(task) by any thread: a fresh TaskState (INITIAL) is set
\* on the task, the task is pushed, and the TaskState handle is returned
\* whatever Push returned.  A rejected task is destroyed by Push's by-value
\* parameter.
Post(t) ==
  /\ ~Aborted
  /\ tp_pc # "destroyed"
  /\ submit_pc[t] = "idle"
  /\ \A u \in Tasks : u < t => submit_pc[u] = "done"
  /\ LET r == Push(t, INITIAL) IN
       /\ state' = [state EXCEPT ![t] = r.st]
       /\ queue' = r.q
       /\ outstanding_tasks' = r.n
       /\ push_ret' = [push_ret EXCEPT ![t] = IF r.ret THEN "true" ELSE "false"]
       /\ done_count' = [done_count EXCEPT ![t] = IF r.ret THEN @ ELSE @ + 1]
  /\ submit_pc' = [submit_pc EXCEPT ![t] = "done"]
  /\ UNCHANGED <<stopped, wpc, wtask, reserved, run_count, notify_count,
                 cancel_ret, cancelled_from, tp_pc, joined, at_stop,
                 drain_pc, ts_call, cancel_pc>>
  /\ UNCHANGED pfvars

\* TaskState::Cancel() by the holder of the handle that Post returned.
HandleCancel(t) ==
  /\ ~Aborted
  /\ submit_pc[t] = "done"
  /\ cancel_ret' = IF Cancel(state[t]) THEN "true" ELSE "false"
  /\ state' = [state EXCEPT ![t] = TryUpdateState(@, CANCELLED)]
  /\ cancelled_from' =
       [cancelled_from EXCEPT ![t] =
          IF state'[t] # state[t] THEN state[t] ELSE @]
  /\ UNCHANGED <<queue, outstanding_tasks, stopped, wpc, wtask, submit_pc,
                 push_ret, reserved, run_count, notify_count, done_count,
                 tp_pc, joined, at_stop, drain_pc, ts_call, cancel_pc>>
  /\ UNCHANGED pfvars

\* ----------------------------------------------------------------- Worker
BlockingPopStopDrops(w) ==
  /\ ~Aborted
  /\ wpc[w] = "pop"
  /\ BlockingPopReady
  /\ IF stopped \/ queue = <<>>
       THEN /\ wpc' = [wpc EXCEPT ![w] = "exited"]
            /\ UNCHANGED <<wtask, queue>>
       ELSE /\ wtask' = [wtask EXCEPT ![w] = Head(queue)]
            /\ queue' = Tail(queue)
            /\ wpc' = [wpc EXCEPT ![w] = "assign"]
  /\ UNCHANGED <<state, outstanding_tasks, stopped, submit_pc, push_ret,
                 reserved, run_count, notify_count, done_count, cancel_ret,
                 cancelled_from, tp_pc, joined, at_stop, drain_pc, ts_call,
                 cancel_pc>>
  /\ UNCHANGED pfvars

\* Worker::_Run, the loop condition: task = queue->BlockingPop(); a nullptr
\* ends the thread.
WorkerBlockingPop(w) ==
  /\ ~Aborted
  /\ wpc[w] = "pop"
  /\ BlockingPopReady
  /\ IF BlockingPopResult = NoTask
       THEN /\ wpc' = [wpc EXCEPT ![w] = "exited"]
            /\ UNCHANGED <<wtask, queue>>
       ELSE /\ wtask' = [wtask EXCEPT ![w] = BlockingPopResult]
            /\ queue' = Tail(queue)
            /\ wpc' = [wpc EXCEPT ![w] = "assign"]
  /\ UNCHANGED <<state, outstanding_tasks, stopped, submit_pc, push_ret,
                 reserved, run_count, notify_count, done_count, cancel_ret,
                 cancelled_from, tp_pc, joined, at_stop, drain_pc, ts_call,
                 cancel_pc>>
  /\ UNCHANGED pfvars

WorkerAssignIgnoresResult(w) ==
  /\ ~Aborted
  /\ wpc[w] = "assign"
  /\ state' = [state EXCEPT ![wtask[w]] = TryUpdateState(@, ASSIGNED)]
  /\ wpc' = [wpc EXCEPT ![w] = "run"]
  /\ UNCHANGED <<queue, outstanding_tasks, stopped, wtask, submit_pc,
                 push_ret, reserved, run_count, notify_count, done_count,
                 cancel_ret, cancelled_from, tp_pc, joined, at_stop,
                 drain_pc, ts_call, cancel_pc>>
  /\ UNCHANGED pfvars

\* task_state = task->TryUpdateState(ASSIGNED); the branch on it, with the
\* CHECK_EQ(task_state, CANCELLED) of the else branch.
WorkerAssign(w) ==
  /\ ~Aborted
  /\ wpc[w] = "assign"
  /\ LET t == wtask[w]
         task_state == TryUpdateState(state[t], ASSIGNED) IN
       /\ state' = [state EXCEPT ![t] = task_state]
       /\ wpc' = [wpc EXCEPT ![w] =
                    IF task_state = ASSIGNED THEN "run"
                    ELSE IF task_state = CANCELLED THEN "complete"
                    ELSE "abort"]
  /\ UNCHANGED <<queue, outstanding_tasks, stopped, wtask, submit_pc,
                 push_ret, reserved, run_count, notify_count, done_count,
                 cancel_ret, cancelled_from, tp_pc, joined, at_stop,
                 drain_pc, ts_call, cancel_pc>>
  /\ UNCHANGED pfvars

\* task->Run(): LibuvTask::Run calls req->work_cb and returns.
WorkerRun(w) ==
  /\ ~Aborted
  /\ wpc[w] = "run"
  /\ run_count' = [run_count EXCEPT ![wtask[w]] = @ + 1]
  /\ wpc' = [wpc EXCEPT ![w] = "complete"]
  /\ UNCHANGED <<state, queue, outstanding_tasks, stopped, wtask, submit_pc,
                 push_ret, reserved, notify_count, done_count, cancel_ret,
                 cancelled_from, tp_pc, joined, at_stop, drain_pc, ts_call,
                 cancel_pc>>
  /\ UNCHANGED pfvars

WorkerCompleteOmitted(w) ==
  /\ ~Aborted
  /\ wpc[w] = "complete"
  /\ wpc' = [wpc EXCEPT ![w] = "notify"]
  /\ UNCHANGED <<state, queue, outstanding_tasks, stopped, wtask, submit_pc,
                 push_ret, reserved, run_count, notify_count, done_count,
                 cancel_ret, cancelled_from, tp_pc, joined, at_stop,
                 drain_pc, ts_call, cancel_pc>>
  /\ UNCHANGED pfvars

WorkerCompleteSkipsCancelled(w) ==
  /\ ~Aborted
  /\ wpc[w] = "complete"
  /\ LET t == wtask[w] IN
       /\ state' = [state EXCEPT ![t] =
                      IF @ = CANCELLED THEN @ ELSE TryUpdateState(@, COMPLETED)]
       /\ wpc' = [wpc EXCEPT ![w] = "notify"]
  /\ UNCHANGED <<queue, outstanding_tasks, stopped, wtask, submit_pc,
                 push_ret, reserved, run_count, notify_count, done_count,
                 cancel_ret, cancelled_from, tp_pc, joined, at_stop,
                 drain_pc, ts_call, cancel_pc>>
  /\ UNCHANGED pfvars

\* CHECK_EQ(task->TryUpdateState(COMPLETED), COMPLETED).
WorkerComplete(w) ==
  /\ ~Aborted
  /\ wpc[w] = "complete"
  /\ LET t == wtask[w]
         task_state == TryUpdateState(state[t], COMPLETED) IN
       /\ state' = [state EXCEPT ![t] = task_state]
       /\ wpc' = [wpc EXCEPT ![w] =
                    IF task_state = COMPLETED THEN "notify" ELSE "abort"]
  /\ UNCHANGED <<queue, outstanding_tasks, stopped, wtask, submit_pc,
                 push_ret, reserved, run_count, notify_count, done_count,
                 cancel_ret, cancelled_from, tp_pc, joined, at_stop,
                 drain_pc, ts_call, cancel_pc>>
  /\ UNCHANGED pfvars

WorkerNotifyBeforeComplete(w) ==
  /\ ~Aborted
  /\ wpc[w] \in {"complete", "notify"}
  /\ outstanding_tasks' = NotifyOfCompletion(outstanding_tasks)
  /\ notify_count' = [notify_count EXCEPT ![wtask[w]] = @ + 1]
  /\ wpc' = [wpc EXCEPT ![w] = "destroy"]
  /\ UNCHANGED <<state, queue, stopped, wtask, submit_pc, push_ret, reserved,
                 run_count, done_count, cancel_ret, cancelled_from, tp_pc,
                 joined, at_stop, drain_pc, ts_call, cancel_pc>>
  /\ UNCHANGED pfvars

\* queue->NotifyOfCompletion(), with its CHECK_GE(outstanding_tasks_, 0).
WorkerNotify(w) ==
  /\ ~Aborted
  /\ wpc[w] = "notify"
  /\ outstanding_tasks' = NotifyOfCompletion(outstanding_tasks)
  /\ notify_count' = [notify_count EXCEPT ![wtask[w]] = @ + 1]
  /\ wpc' = [wpc EXCEPT ![w] =
               IF outstanding_tasks' >= 0 THEN "destroy" ELSE "abort"]
  /\ UNCHANGED <<state, queue, stopped, wtask, submit_pc, push_ret, reserved,
                 run_count, done_count, cancel_ret, cancelled_from, tp_pc,
                 joined, at_stop, drain_pc, ts_call, cancel_pc>>
  /\ UNCHANGED pfvars

\* End of the loop body: the unique_ptr<Task> goes out of scope and
\* ~LibuvTask deletes the cookie, clears reserved[0] and calls done(req).
WorkerDestroy(w) ==
  /\ ~Aborted
  /\ wpc[w] = "destroy"
  /\ reserved' = [reserved EXCEPT ![wtask[w]] = FALSE]
  /\ done_count' = [done_count EXCEPT ![wtask[w]] = @ + 1]
  /\ wtask' = [wtask EXCEPT ![w] = NoTask]
  /\ wpc' = [wpc EXCEPT ![w] = "pop"]
  /\ UNCHANGED <<state, queue, outstanding_tasks, stopped, submit_pc,
                 push_ret, run_count, notify_count, cancel_ret,
                 cancelled_from, tp_pc, joined, at_stop, drain_pc, ts_call,
                 cancel_pc>>
  /\ UNCHANGED pfvars

\* ------------------------------------------------------------- Threadpool
\* ~Threadpool, first statement: queue_.Stop().
Stop ==
  /\ ~Aborted
  /\ tp_pc = "running"
  /\ stopped' = TRUE
  /\ at_stop' = {queue[i] : i \in 1..Len(queue)}
  /\ tp_pc' = "joining"
  /\ UNCHANGED <<state, queue, outstanding_tasks, wpc, wtask, submit_pc,
                 push_ret, reserved, run_count, notify_count, done_count,
                 cancel_ret, cancelled_from, joined, drain_pc, ts_call,
                 cancel_pc>>
  /\ UNCHANGED pfvars

\* ~Threadpool, the loop: worker->Join() for each worker in order; the
\* destructor is over after the last join.
Join(w) ==
  /\ ~Aborted
  /\ tp_pc = "joining"
  /\ w = joined + 1
  /\ wpc[w] = "exited"
  /\ joined' = w
  /\ tp_pc' = IF w = NumWorkers THEN "destroyed" ELSE "joining"
  /\ UNCHANGED <<state, queue, outstanding_tasks, stopped, wpc, wtask,
                 submit_pc, push_ret, reserved, run_count, notify_count,
                 done_count, cancel_ret, cancelled_from, at_stop, drain_pc,
                 ts_call, cancel_pc>>
  /\ UNCHANGED pfvars

\* A thread enters Threadpool::BlockingDrain -> TaskQueue::BlockingDrain.
BlockingDrainCall ==
  /\ ~Aborted
  /\ tp_pc # "destroyed"
  /\ drain_pc \in {"idle", "returned"}
  /\ drain_pc' = "waiting"
  /\ UNCHANGED <<state, queue, outstanding_tasks, stopped, wpc, wtask,
                 submit_pc, push_ret, reserved, run_count, notify_count,
                 done_count, cancel_ret, cancelled_from, tp_pc, joined,
                 at_stop, ts_call, cancel_pc>>
  /\ UNCHANGED pfvars

\* TaskQueue::BlockingDrain returns: while (outstanding_tasks_) Wait is left
\* with the lock held and the counter zero.
BlockingDrainReturn ==
  /\ ~Aborted
  /\ drain_pc = "waiting"
  /\ outstanding_tasks = 0
  /\ drain_pc' = "returned"
  /\ UNCHANGED <<state, queue, outstanding_tasks, stopped, wpc, wtask,
                 submit_pc, push_ret, reserved, run_count, notify_count,
                 done_count, cancel_ret, cancelled_from, tp_pc, joined,
                 at_stop, ts_call, cancel_pc>>
  /\ UNCHANGED pfvars

\* --------------------------------------- TaskState called directly
\* Any thread holding a TaskState calls TryUpdateState(new_state) on it; the
\* call is atomic under TaskState::lock_.
CallTryUpdateState(t, new_state) ==
  /\ state' = [state EXCEPT ![t] = TryUpdateState(@, new_state)]
  /\ ts_call' = [op |-> "TryUpdateState", task |-> t, arg |-> new_state,
                 pre |-> state[t], ret |-> TryUpdateState(state[t], new_state)]
  /\ UNCHANGED poolvars
  /\ UNCHANGED pfvars

\* Any thread holding a TaskState calls Cancel() on it.
CallCancel(t) ==
  /\ state' = [state EXCEPT ![t] = TryUpdateState(@, CANCELLED)]
  /\ ts_call' = [op |-> "Cancel", task |-> t, arg |-> CANCELLED,
                 pre |-> state[t], ret |-> Cancel(state[t])]
  /\ UNCHANGED poolvars
  /\ UNCHANGED pfvars

NextTS ==
  \/ \E t \in Tasks, new_state \in States : CallTryUpdateState(t, new_state)
  \/ \E t \in Tasks : CallCancel(t)

\* TaskState objects alone, driven by arbitrary callers.
SpecTS ==
  Init /\ [][NextTS]_vars

WorkerStep(w) ==
  \/ WorkerBlockingPop(w)
  \/ WorkerAssign(w)
  \/ WorkerRun(w)
  \/ WorkerComplete(w)
  \/ WorkerNotify(w)
  \/ WorkerDestroy(w)

PoolStep ==
  \/ \E w \in Workers : WorkerBlockingPop(w)
  \/ \E w \in Workers : WorkerAssign(w)
  \/ \E w \in Workers : WorkerRun(w)
  \/ \E w \in Workers : WorkerComplete(w)
  \/ \E w \in Workers : WorkerNotify(w)
  \/ \E w \in Workers : WorkerDestroy(w)
  \/ Stop
  \/ \E w \in Workers : Join(w)

\* Posting, cancelling, the workers and the teardown.
NextPool ==
  \/ \E t \in Tasks : Post(t)
  \/ \E t \in Tasks : HandleCancel(t)
  \/ PoolStep

Next ==
  \/ NextPool
  \/ BlockingDrainCall
  \/ BlockingDrainReturn

NextUV ==
  \/ \E t \in Tasks : SubmitPost(t)
  \/ \E t \in Tasks : SubmitStore(t)
  \/ \E t \in Tasks : CancelCheck(t)
  \/ \E t \in Tasks : CancelDeref(t)
  \/ PoolStep

\* The Threadpool used through Threadpool::Post, as the platform's worker
\* task runner does.
Spec ==
  Init /\ [][Next]_vars

\* The Threadpool used through the LibuvExecutor, which offers no drain.
SpecUV ==
  Init /\ [][NextUV]_vars

\* Worker threads are OS threads: each is scheduled again and again, and
\* every Run() returns.  A thread in BlockingDrain only waits and reads, so
\* it is left out here.
LiveSpec ==
  Init /\ [][NextPool]_vars /\ \A w \in Workers : WF_vars(WorkerStep(w))

\* ============================================================== platform
\* The thread pool's variables, which the platform's own steps leave alone.
tpvars == <<state, ts_call, poolvars, auxvars>>

\* The foreground tasks posted through PostTask to the present runner.
PostedNow ==
  (1..fposted) \ (delayed_posted \cup earlier_posted)

\* FlushForegroundTasksInternal is entered: did_work = false.
EnterFlush ==
  /\ loop_pc' = "delayed"
  /\ did_work' = FALSE
  /\ flush_armed' = 0
  /\ flush_ran' = 0
  /\ prev_quiet' = (flush_ret # NoRet /\ ~post_seen)
  /\ post_seen' = FALSE

\* PerIsolatePlatformData::ref(): ref_count_++.
ref(n) ==
  n + 1

unrefDropsAll(n) ==
  0

\* PerIsolatePlatformData::unref(): return --ref_count_.
unref(n) ==
  n - 1

\* NodePlatform::RegisterIsolate under per_isolate_mutex_: an existing runner
\* gets one more reference, otherwise a new PerIsolatePlatformData is made.
RegisterIsolate ==
  /\ loop_pc = "idle"
  /\ regs < MaxRegs
  /\ regs' = regs + 1
  /\ IF per_isolate
       THEN /\ ref_count' = ref(ref_count)
            /\ UNCHANGED <<per_isolate, flush_tasks, foreground_tasks,
                           foreground_delayed_tasks, scheduled_delayed_tasks,
                           flush_ret, post_seen, late, pre_shutdown,
                           dtor_done, earlier_posted>>
       ELSE /\ per_isolate' = TRUE
            /\ ref_count' = InitialRefCount
            /\ flush_tasks' = TRUE
            /\ foreground_tasks' = <<>>
            /\ foreground_delayed_tasks' = <<>>
            /\ scheduled_delayed_tasks' = <<>>
            /\ flush_ret' = NoRet
            /\ post_seen' = FALSE
            /\ late' = {}
            /\ pre_shutdown' = {}
            /\ dtor_done' = FALSE
            /\ earlier_posted' = 1..fposted
  /\ UNCHANGED <<loop_pc, loop_caller, popped_tasks, did_work, executed,
                 fposted, delayed_posted, unregs, flush_armed, flush_ran,
                 prev_quiet>>
  /\ UNCHANGED tpvars

\* NodePlatform::UnregisterIsolate under per_isolate_mutex_: CHECK(existing),
\* then unref(); at zero the runner's Shutdown() is entered, still under the
\* mutex, and its first flush begins.
UnregisterIsolate ==
  /\ loop_pc = "idle"
  /\ unregs < MaxRegs
  /\ unregs' = unregs + 1
  /\ IF ~per_isolate
       THEN /\ loop_pc' = "abort"
            /\ UNCHANGED <<ref_count, loop_caller, did_work, flush_armed,
                           flush_ran, prev_quiet, post_seen, pre_shutdown>>
       ELSE /\ ref_count' = unref(ref_count)
            /\ IF unref(ref_count) = 0
                 THEN /\ loop_caller' = "shutdown"
                      /\ pre_shutdown' = PostedNow
                      /\ EnterFlush
                 ELSE UNCHANGED <<loop_pc, loop_caller, did_work,
                                  flush_armed, flush_ran, prev_quiet,
                                  post_seen, pre_shutdown>>
  /\ UNCHANGED <<per_isolate, flush_tasks, foreground_tasks,
                 foreground_delayed_tasks, scheduled_delayed_tasks,
                 popped_tasks, flush_ret, executed, fposted, delayed_posted,
                 regs, late, dtor_done,
                 earlier_posted>>
  /\ UNCHANGED tpvars

\* PerIsolatePlatformData::PostTask by any thread: CHECK_NE(flush_tasks_,
\* nullptr), Push, uv_async_send.
PostTask ==
  /\ loop_pc # "abort"
  /\ per_isolate
  /\ flush_tasks
  /\ fposted < NumFTasks
  /\ fposted' = fposted + 1
  /\ foreground_tasks' = Append(foreground_tasks, fposted + 1)
  /\ late' = late \cup {fposted + 1}
  /\ post_seen' = TRUE
  /\ UNCHANGED <<per_isolate, ref_count, flush_tasks,
                 foreground_delayed_tasks, scheduled_delayed_tasks, loop_pc,
                 loop_caller, popped_tasks, did_work, flush_ret, executed,
                 delayed_posted, regs, unregs, flush_armed, flush_ran,
                 prev_quiet, pre_shutdown, dtor_done,
                 earlier_posted>>
  /\ UNCHANGED tpvars

\* PerIsolatePlatformData::PostDelayedTask by any thread, with a delay of d
\* milliseconds.
PostDelayedTask(d) ==
  /\ loop_pc # "abort"
  /\ per_isolate
  /\ flush_tasks
  /\ fposted < NumFTasks
  /\ fposted' = fposted + 1
  /\ delayed_posted' = delayed_posted \cup {fposted + 1}
  /\ foreground_delayed_tasks' =
       Append(foreground_delayed_tasks, [task |-> fposted + 1, timeout |-> d])
  /\ post_seen' = TRUE
  /\ UNCHANGED <<per_isolate, ref_count, flush_tasks, foreground_tasks,
                 scheduled_delayed_tasks, loop_pc, loop_caller, popped_tasks,
                 did_work, flush_ret, executed, regs, unregs, flush_armed,
                 flush_ran, prev_quiet, late, pre_shutdown, dtor_done,
                 earlier_posted>>
  /\ UNCHANGED tpvars

\* The run of the flush_tasks_ async callback (FlushTasks), or
\* NodePlatform::FlushForegroundTasks, on the isolate's loop thread.
FlushForegroundTasks ==
  /\ loop_pc = "idle"
  /\ per_isolate
  /\ loop_caller' = "flush"
  /\ EnterFlush
  /\ UNCHANGED <<per_isolate, ref_count, flush_tasks, foreground_tasks,
                 foreground_delayed_tasks, scheduled_delayed_tasks,
                 popped_tasks, flush_ret, executed, fposted, delayed_posted,
                 regs, unregs, late, pre_shutdown, dtor_done,
                 earlier_posted>>
  /\ UNCHANGED tpvars

\* WorkerThreadsTaskRunner::BlockingDrain: the body is empty, so the call
\* returns at once whatever the worker pool is doing.
WorkerThreadsBlockingDrainReturns ==
  TRUE

\* NodePlatform::DrainTasks on the loop thread: ForIsolate, then the first
\* round of do { BlockingDrain(); } while (FlushForegroundTasksInternal()).
DrainTasks ==
  /\ loop_pc = "idle"
  /\ per_isolate
  /\ WorkerThreadsBlockingDrainReturns
  /\ loop_caller' = "drain"
  /\ EnterFlush
  /\ UNCHANGED <<per_isolate, ref_count, flush_tasks, foreground_tasks,
                 foreground_delayed_tasks, scheduled_delayed_tasks,
                 popped_tasks, flush_ret, executed, fposted, delayed_posted,
                 regs, unregs, late, pre_shutdown, dtor_done,
                 earlier_posted>>
  /\ UNCHANGED tpvars

FlushArmDelayedKeepsDidWork ==
  /\ loop_pc = "delayed"
  /\ foreground_delayed_tasks # <<>>
  /\ LET delayed == Head(foreground_delayed_tasks) IN
       scheduled_delayed_tasks' =
         Append(scheduled_delayed_tasks,
                [task |-> delayed.task,
                 delay_millis |-> FlushDelayMillis(delayed.timeout)])
  /\ foreground_delayed_tasks' = Tail(foreground_delayed_tasks)
  /\ flush_armed' = flush_armed + 1
  /\ UNCHANGED <<per_isolate, ref_count, flush_tasks, foreground_tasks,
                 loop_pc, loop_caller, popped_tasks, did_work, flush_ret,
                 executed, fposted, delayed_posted, regs, unregs, flush_ran,
                 post_seen, prev_quiet, late, pre_shutdown, dtor_done,
                 earlier_posted>>
  /\ UNCHANGED tpvars

\* FlushForegroundTasksInternal, first loop: one delayed task is popped, its
\* timer is started with the rounded delay and kept in
\* scheduled_delayed_tasks_.
FlushArmDelayed ==
  /\ loop_pc = "delayed"
  /\ foreground_delayed_tasks # <<>>
  /\ LET delayed == Head(foreground_delayed_tasks) IN
       scheduled_delayed_tasks' =
         Append(scheduled_delayed_tasks,
                [task |-> delayed.task,
                 delay_millis |-> FlushDelayMillis(delayed.timeout)])
  /\ foreground_delayed_tasks' = Tail(foreground_delayed_tasks)
  /\ did_work' = TRUE
  /\ flush_armed' = flush_armed + 1
  /\ UNCHANGED <<per_isolate, ref_count, flush_tasks, foreground_tasks,
                 loop_pc, loop_caller, popped_tasks, flush_ret, executed,
                 fposted, delayed_posted, regs, unregs, flush_ran, post_seen,
                 prev_quiet, late, pre_shutdown, dtor_done,
                 earlier_posted>>
  /\ UNCHANGED tpvars

\* FlushForegroundTasksInternal once Pop() found no delayed task:
\* tasks = foreground_tasks_.PopAll(), a swap under the queue's lock.
FlushPopAll ==
  /\ loop_pc = "delayed"
  /\ foreground_delayed_tasks = <<>>
  /\ popped_tasks' = foreground_tasks
  /\ foreground_tasks' = <<>>
  /\ late' = {}
  /\ loop_pc' = "run"
  /\ UNCHANGED <<per_isolate, ref_count, flush_tasks,
                 foreground_delayed_tasks, scheduled_delayed_tasks,
                 loop_caller, did_work, flush_ret, executed, fposted,
                 delayed_posted, regs, unregs, flush_armed, flush_ran,
                 post_seen, prev_quiet, pre_shutdown, dtor_done,
                 earlier_posted>>
  /\ UNCHANGED tpvars

FlushRunTaskFromLiveQueue ==
  /\ loop_pc = "run"
  /\ popped_tasks \o foreground_tasks # <<>>
  /\ executed' = Append(executed, Head(popped_tasks \o foreground_tasks))
  /\ IF popped_tasks # <<>>
       THEN /\ popped_tasks' = Tail(popped_tasks)
            /\ UNCHANGED foreground_tasks
       ELSE /\ foreground_tasks' = Tail(foreground_tasks)
            /\ UNCHANGED popped_tasks
  /\ did_work' = TRUE
  /\ flush_ran' = flush_ran + 1
  /\ UNCHANGED <<per_isolate, ref_count, flush_tasks,
                 foreground_delayed_tasks, scheduled_delayed_tasks, loop_pc,
                 loop_caller, flush_ret, fposted, delayed_posted, regs,
                 unregs, flush_armed, post_seen, prev_quiet, late,
                 pre_shutdown, dtor_done,
                 earlier_posted>>
  /\ UNCHANGED tpvars

\* FlushForegroundTasksInternal, second loop: the front of the local queue
\* is run.
FlushRunTask ==
  /\ loop_pc = "run"
  /\ popped_tasks # <<>>
  /\ executed' = Append(executed, Head(popped_tasks))
  /\ popped_tasks' = Tail(popped_tasks)
  /\ did_work' = TRUE
  /\ flush_ran' = flush_ran + 1
  /\ UNCHANGED <<per_isolate, ref_count, flush_tasks, foreground_tasks,
                 foreground_delayed_tasks, scheduled_delayed_tasks, loop_pc,
                 loop_caller, flush_ret, fposted, delayed_posted, regs,
                 unregs, flush_armed, post_seen, prev_quiet, late,
                 pre_shutdown, dtor_done,
                 earlier_posted>>
  /\ UNCHANGED tpvars

\* FlushForegroundTasksInternal: the local queue is empty, return did_work.
FlushReturn ==
  /\ loop_pc = "run"
  /\ popped_tasks = <<>>
  /\ flush_ret' = IF did_work THEN "true" ELSE "false"
  /\ loop_pc' = "ret"
  /\ UNCHANGED <<per_isolate, ref_count, flush_tasks, foreground_tasks,
                 foreground_delayed_tasks, scheduled_delayed_tasks,
                 loop_caller, popped_tasks, did_work, executed, fposted,
                 delayed_posted, regs, unregs, flush_armed, flush_ran,
                 post_seen, prev_quiet, late, pre_shutdown, dtor_done,
                 earlier_posted>>
  /\ UNCHANGED tpvars

\* The async callback or FlushForegroundTasks returns to the event loop.
FlushForegroundTasksDone ==
  /\ loop_pc = "ret"
  /\ loop_caller = "flush"
  /\ loop_pc' = "idle"
  /\ loop_caller' = NoRet
  /\ UNCHANGED <<per_isolate, ref_count, flush_tasks, foreground_tasks,
                 foreground_delayed_tasks, scheduled_delayed_tasks,
                 popped_tasks, did_work, flush_ret, executed, fposted,
                 delayed_posted, regs, unregs, flush_armed, flush_ran,
                 post_seen, prev_quiet, late, pre_shutdown, dtor_done,
                 earlier_posted>>
  /\ UNCHANGED tpvars

\* NodePlatform::DrainTasks after a flush that returned true: BlockingDrain
\* again, then the next flush.
DrainTasksAgain ==
  /\ loop_pc = "ret"
  /\ loop_caller = "drain"
  /\ flush_ret = "true"
  /\ WorkerThreadsBlockingDrainReturns
  /\ EnterFlush
  /\ UNCHANGED <<per_isolate, ref_count, flush_tasks, foreground_tasks,
                 foreground_delayed_tasks, scheduled_delayed_tasks,
                 loop_caller, popped_tasks, flush_ret, executed, fposted,
                 delayed_posted, regs, unregs, late, pre_shutdown, dtor_done,
                 earlier_posted>>
  /\ UNCHANGED tpvars

\* NodePlatform::DrainTasks after a flush that returned false: return.
DrainTasksReturn ==
  /\ loop_pc = "ret"
  /\ loop_caller = "drain"
  /\ flush_ret = "false"
  /\ loop_pc' = "idle"
  /\ loop_caller' = NoRet
  /\ UNCHANGED <<per_isolate, ref_count, flush_tasks, foreground_tasks,
                 foreground_delayed_tasks, scheduled_delayed_tasks,
                 popped_tasks, did_work, flush_ret, executed, fposted,
                 delayed_posted, regs, unregs, flush_armed, flush_ran,
                 post_seen, prev_quiet, late, pre_shutdown, dtor_done,
                 earlier_posted>>
  /\ UNCHANGED tpvars

\* PerIsolatePlatformData::Shutdown, while (FlushForegroundTasksInternal())
\* {}: the flush returned true, so it is called again.
ShutdownFlushAgain ==
  /\ loop_pc = "ret"
  /\ loop_caller = "shutdown"
  /\ flush_ret = "true"
  /\ EnterFlush
  /\ UNCHANGED <<per_isolate, ref_count, flush_tasks, foreground_tasks,
                 foreground_delayed_tasks, scheduled_delayed_tasks,
                 loop_caller, popped_tasks, flush_ret, executed, fposted,
                 delayed_posted, regs, unregs, late, pre_shutdown, dtor_done,
                 earlier_posted>>
  /\ UNCHANGED tpvars

ShutdownFinishKeepsTimers ==
  /\ loop_pc = "ret"
  /\ loop_caller = "shutdown"
  /\ flush_ret = "false"
  /\ flush_tasks' = FALSE
  /\ per_isolate' = FALSE
  /\ loop_pc' = "idle"
  /\ loop_caller' = NoRet
  /\ UNCHANGED <<ref_count, foreground_tasks, foreground_delayed_tasks,
                 scheduled_delayed_tasks, popped_tasks, did_work, flush_ret,
                 executed, fposted, delayed_posted, regs, unregs,
                 flush_armed, flush_ran, post_seen, prev_quiet, late,
                 pre_shutdown, dtor_done,
                 earlier_posted>>
  /\ UNCHANGED tpvars

\* PerIsolatePlatformData::Shutdown after the flush that returned false:
\* CancelPendingDelayedTasks() clears scheduled_delayed_tasks_, the async
\* handle is closed and flush_tasks_ set to nullptr; UnregisterIsolate then
\* erases the map entry and releases the mutex.
ShutdownFinish ==
  /\ loop_pc = "ret"
  /\ loop_caller = "shutdown"
  /\ flush_ret = "false"
  /\ scheduled_delayed_tasks' = <<>>
  /\ flush_tasks' = FALSE
  /\ per_isolate' = FALSE
  /\ loop_pc' = "idle"
  /\ loop_caller' = NoRet
  /\ UNCHANGED <<ref_count, foreground_tasks, foreground_delayed_tasks,
                 popped_tasks, did_work, flush_ret, executed, fposted,
                 delayed_posted, regs, unregs, flush_armed, flush_ran,
                 post_seen, prev_quiet, late, pre_shutdown, dtor_done,
                 earlier_posted>>
  /\ UNCHANGED tpvars

\* ~PerIsolatePlatformData of a runner erased from the map: it calls
\* Shutdown(), which returns at once because flush_tasks_ is nullptr.
PerIsolateDestructor ==
  /\ loop_pc = "idle"
  /\ ~per_isolate
  /\ regs > 0
  /\ ~flush_tasks
  /\ ~dtor_done
  /\ dtor_done' = TRUE
  /\ UNCHANGED <<per_isolate, ref_count, flush_tasks, foreground_tasks,
                 foreground_delayed_tasks, scheduled_delayed_tasks, loop_pc,
                 loop_caller, popped_tasks, did_work, flush_ret, executed,
                 fposted, delayed_posted, regs, unregs, flush_armed,
                 flush_ran, post_seen, prev_quiet, late, pre_shutdown,
                 earlier_posted>>
  /\ UNCHANGED tpvars

\* PerIsolatePlatformData::RunForegroundTask(uv_timer_t*), first statement:
\* the timer of the i-th scheduled delayed task fires on the loop thread and
\* the task is run; `delayed` stays in the callback's hands.
RunForegroundTask(i) ==
  /\ loop_pc = "idle"
  /\ i \in DOMAIN scheduled_delayed_tasks
  /\ executed' = Append(executed, scheduled_delayed_tasks[i].task)
  /\ timer_task' = scheduled_delayed_tasks[i].task
  /\ loop_pc' = "timer"
  /\ UNCHANGED <<per_isolate, ref_count, flush_tasks, foreground_tasks,
                 foreground_delayed_tasks, scheduled_delayed_tasks,
                 loop_caller, popped_tasks, did_work, flush_ret, fposted,
                 delayed_posted, regs, unregs, flush_armed, flush_ran,
                 post_seen, prev_quiet, late, pre_shutdown, dtor_done,
                 earlier_posted>>
  /\ UNCHANGED <<state, ts_call, poolvars, delayvars, lockvars, schedvars>>

\* std::find_if of DeleteFromScheduledTasks: the positions of the entry.
FindScheduled(delayed) ==
  {i \in DOMAIN scheduled_delayed_tasks :
     scheduled_delayed_tasks[i].task = delayed}

\* PerIsolatePlatformData::DeleteFromScheduledTasks, called by the timer
\* callback after the task has run: CHECK_NE(it, end), then erase(it).
DeleteFromScheduledTasks ==
  /\ loop_pc = "timer"
  /\ IF FindScheduled(timer_task) = {}
       THEN /\ loop_pc' = "abort"
            /\ UNCHANGED scheduled_delayed_tasks
       ELSE LET it == CHOOSE i \in FindScheduled(timer_task) : TRUE IN
            /\ scheduled_delayed_tasks' =
                 SubSeq(scheduled_delayed_tasks, 1, it - 1) \o
                 SubSeq(scheduled_delayed_tasks, it + 1,
                        Len(scheduled_delayed_tasks))
            /\ loop_pc' = "idle"
  /\ timer_task' = NoTask
  /\ UNCHANGED <<per_isolate, ref_count, flush_tasks, foreground_tasks,
                 foreground_delayed_tasks, loop_caller, popped_tasks,
                 did_work, flush_ret, executed, fposted, delayed_posted,
                 regs, unregs, flush_armed, flush_ran, post_seen, prev_quiet,
                 late, pre_shutdown, dtor_done,
                 earlier_posted>>
  /\ UNCHANGED <<state, ts_call, poolvars, delayvars, lockvars, schedvars>>

\* per_isolate_mutex_ is held by the loop thread: UnregisterIsolate's
\* ScopedLock lives until the Shutdown() it calls has returned.
PerIsolateMutexHeld ==
  loop_caller = "shutdown"

\* NodePlatform::CancelPendingDelayedTasks(isolate) on the loop thread,
\* called between callbacks or by the foreground task being run: ForIsolate
\* locks per_isolate_mutex_ (relocking a mutex the thread holds never
\* returns, or aborts) and does CHECK(data), then
\* scheduled_delayed_tasks_.clear().
CancelPendingDelayedTasks ==
  /\ loop_pc \in {"idle", "run", "timer"}
  /\ IF PerIsolateMutexHeld
       THEN /\ loop_pc' \in {"deadlock", "abort"}
            /\ UNCHANGED scheduled_delayed_tasks
       ELSE IF ~per_isolate
         THEN /\ loop_pc' = "abort"
              /\ UNCHANGED scheduled_delayed_tasks
         ELSE /\ scheduled_delayed_tasks' = <<>>
              /\ UNCHANGED loop_pc
  /\ UNCHANGED <<per_isolate, ref_count, flush_tasks, foreground_tasks,
                 foreground_delayed_tasks, loop_caller, popped_tasks,
                 did_work, flush_ret, executed, fposted, delayed_posted,
                 regs, unregs, flush_armed, flush_ran, post_seen, prev_quiet,
                 late, pre_shutdown, dtor_done,
                 earlier_posted>>
  /\ UNCHANGED tpvars

\* The steps of FlushForegroundTasksInternal, whoever called it.
FlushStep ==
  \/ FlushArmDelayed
  \/ FlushPopAll
  \/ FlushRunTask
  \/ FlushReturn

NextPF ==
  \/ RegisterIsolate
  \/ UnregisterIsolate
  \/ PostTask
  \/ \E d \in FgDelays : PostDelayedTask(d)
  \/ FlushForegroundTasks
  \/ FlushForegroundTasksDone
  \/ DrainTasks
  \/ DrainTasksAgain
  \/ DrainTasksReturn
  \/ FlushStep
  \/ ShutdownFlushAgain
  \/ ShutdownFinish
  \/ PerIsolateDestructor
  \/ \E i \in 1..NumFTasks : RunForegroundTask(i)
  \/ DeleteFromScheduledTasks
  \/ CancelPendingDelayedTasks

\* One isolate's foreground runner driven by its loop thread and by posting
\* threads.
SpecPF ==
  Init /\ [][NextPF]_vars

\* ------------------------------------------------ the delay of a timer
\* PostDelayedTask(task, delay_in_seconds), on the worker runner or on the
\* isolate's runner, with a delay of d milliseconds.
GiveDelay(d) ==
  /\ delay_in_seconds = NoTimer
  /\ delay_in_seconds' = d
  /\ UNCHANGED <<sched_timeout, flush_timeout>>
  /\ UNCHANGED <<state, ts_call, poolvars, runnervars, lockvars, schedvars,
               timer_task>>

\* ScheduleTask::Run on the DelayedTaskScheduler's thread: the timer is
\* started with delay_millis.
ScheduleTaskRun ==
  /\ delay_in_seconds # NoTimer
  /\ sched_timeout = NoTimer
  /\ sched_timeout' = ScheduleDelayMillis(delay_in_seconds)
  /\ UNCHANGED <<delay_in_seconds, flush_timeout>>
  /\ UNCHANGED <<state, ts_call, poolvars, runnervars, lockvars, schedvars,
               timer_task>>

\* FlushForegroundTasksInternal, for the delayed task it popped: the timer is
\* started with delay_millis.
FlushTimerStart ==
  /\ delay_in_seconds # NoTimer
  /\ flush_timeout = NoTimer
  /\ flush_timeout' = FlushDelayMillis(delay_in_seconds)
  /\ UNCHANGED <<delay_in_seconds, sched_timeout>>
  /\ UNCHANGED <<state, ts_call, poolvars, runnervars, lockvars, schedvars,
               timer_task>>

NextDelay ==
  \/ \E d \in 0..MaxDelayMs : GiveDelay(d)
  \/ ScheduleTaskRun
  \/ FlushTimerStart

\* One delayed task given to each of the two places that start timers.
SpecDelay ==
  Init /\ [][NextDelay]_vars

\* ------------------------------------------------------ the mutexes
\* The mutexes: TaskState::lock_, threadpool::TaskQueue::lock_,
\* NodePlatform::per_isolate_mutex_ and the lock_ of the runner's two
\* TaskQueue<T> members.
TaskStateLock == "TaskState::lock_"
TaskQueueLock == "TaskQueue::lock_"
PerIsolateMutex == "per_isolate_mutex_"
ForegroundLock == "foreground_tasks_.lock_"
DelayedLock == "foreground_delayed_tasks_.lock_"

\* Mutex::ScopedLock constructed on m, and its destruction.
Lock(m) == [do |-> "lock", m |-> m]
Unlock(m) == [do |-> "unlock", m |-> m]

\* TaskState::TryUpdateState (also GetState, and Cancel through
\* TryUpdateState): the state's lock for the length of the call.
TryUpdateStateLocks ==
  <<Lock(TaskStateLock), Unlock(TaskStateLock)>>

PushLocksStateFirst ==
  <<Lock(TaskStateLock), Lock(TaskQueueLock), Unlock(TaskQueueLock),
    Unlock(TaskStateLock)>>

\* TaskQueue::Push on a running queue: the queue's lock for the length of
\* the call, task->TryUpdateState(QUEUED) inside it.
PushLocks ==
  <<Lock(TaskQueueLock), Lock(TaskStateLock), Unlock(TaskStateLock),
    Unlock(TaskQueueLock)>>

\* TaskQueue::BlockingPop, NotifyOfCompletion, BlockingDrain, Stop, Length,
\* and Push on a stopped queue: the queue's lock only.
QueueOnlyLocks ==
  <<Lock(TaskQueueLock), Unlock(TaskQueueLock)>>

\* NodePlatform::RegisterIsolate, ForIsolate, and UnregisterIsolate when
\* references remain: per_isolate_mutex_ only.
RegisterIsolateLocks ==
  <<Lock(PerIsolateMutex), Unlock(PerIsolateMutex)>>

\* FlushForegroundTasksInternal: foreground_delayed_tasks_.Pop(), then
\* foreground_tasks_.PopAll(), each under its queue's lock.
FlushLocks ==
  <<Lock(DelayedLock), Unlock(DelayedLock),
    Lock(ForegroundLock), Unlock(ForegroundLock)>>

\* NodePlatform::UnregisterIsolate of the last reference: Shutdown() and
\* its flush run with per_isolate_mutex_ held.
UnregisterIsolateLocks ==
  <<Lock(PerIsolateMutex)>> \o FlushLocks \o <<Unlock(PerIsolateMutex)>>

\* PerIsolatePlatformData::PostTask: foreground_tasks_.Push.
PostTaskLocks ==
  <<Lock(ForegroundLock), Unlock(ForegroundLock)>>

\* PerIsolatePlatformData::PostDelayedTask: foreground_delayed_tasks_.Push.
PostDelayedTaskLocks ==
  <<Lock(DelayedLock), Unlock(DelayedLock)>>

\* The operations a thread may call, with their lock steps.
LockOps ==
  [TryUpdateState |-> TryUpdateStateLocks,
   Push |-> PushLocks,
   BlockingPop |-> QueueOnlyLocks,
   RegisterIsolate |-> RegisterIsolateLocks,
   UnregisterIsolate |-> UnregisterIsolateLocks,
   FlushForegroundTasksInternal |-> FlushLocks,
   PostTask |-> PostTaskLocks,
   PostDelayedTask |-> PostDelayedTaskLocks]

\* The mutex m is held by some thread.
Held(m) ==
  \E th \in LockThreads : \E i \in DOMAIN th_held[th] : th_held[th][i] = m

\* A thread outside every operation calls op.
CallOp(th, op) ==
  /\ th_op[th] = NoRet
  /\ th_op' = [th_op EXCEPT ![th] = op]
  /\ th_pos' = [th_pos EXCEPT ![th] = 1]
  /\ UNCHANGED <<th_held, delayvars, schedvars, timer_task>>
  /\ UNCHANGED <<state, ts_call, poolvars, runnervars>>

\* Mutex::ScopedLock's constructor: the thread waits until the mutex is
\* free, then holds it.
AcquireLock(th) ==
  /\ th_op[th] # NoRet
  /\ th_pos[th] <= Len(LockOps[th_op[th]])
  /\ LET step == LockOps[th_op[th]][th_pos[th]] IN
       /\ step.do = "lock"
       /\ ~Held(step.m)
       /\ th_held' = [th_held EXCEPT ![th] = Append(@, step.m)]
  /\ th_pos' = [th_pos EXCEPT ![th] = @ + 1]
  /\ UNCHANGED <<th_op, delayvars, schedvars, timer_task>>
  /\ UNCHANGED <<state, ts_call, poolvars, runnervars>>

\* Mutex::ScopedLock's destructor: the mutex is released.
ReleaseLock(th) ==
  /\ th_op[th] # NoRet
  /\ th_pos[th] <= Len(LockOps[th_op[th]])
  /\ LET step == LockOps[th_op[th]][th_pos[th]] IN
       /\ step.do = "unlock"
       /\ th_held' = [th_held EXCEPT ![th] =
                        SelectSeq(@, LAMBDA m : m # step.m)]
  /\ th_pos' = [th_pos EXCEPT ![th] = @ + 1]
  /\ UNCHANGED <<th_op, delayvars, schedvars, timer_task>>
  /\ UNCHANGED <<state, ts_call, poolvars, runnervars>>

\* The operation returns.
ReturnOp(th) ==
  /\ th_op[th] # NoRet
  /\ th_pos[th] > Len(LockOps[th_op[th]])
  /\ th_op' = [th_op EXCEPT ![th] = NoRet]
  /\ th_pos' = [th_pos EXCEPT ![th] = 1]
  /\ UNCHANGED <<th_held, delayvars, schedvars, timer_task>>
  /\ UNCHANGED <<state, ts_call, poolvars, runnervars>>

NextLocks ==
  \/ \E th \in LockThreads, op \in DOMAIN LockOps : CallOp(th, op)
  \/ \E th \in LockThreads : AcquireLock(th)
  \/ \E th \in LockThreads : ReleaseLock(th)
  \/ \E th \in LockThreads : ReturnOp(th)

\* Threads calling the operations of the thread pool and of the platform,
\* seen through the mutexes they take.
SpecLocks ==
  Init /\ [][NextLocks]_vars

\* NodePlatform::DrainTasks by the loop thread while other threads post worker
\* tasks (CallOnWorkerThread, which is Threadpool::Post) and foreground
\* tasks, and the workers run.
NextDrain ==
  \/ \E t \in Tasks : Post(t)
  \/ \E w \in Workers : WorkerBlockingPop(w)
  \/ \E w \in Workers : WorkerAssign(w)
  \/ \E w \in Workers : WorkerRun(w)
  \/ \E w \in Workers : WorkerComplete(w)
  \/ \E w \in Workers : WorkerNotify(w)
  \/ \E w \in Workers : WorkerDestroy(w)
  \/ RegisterIsolate
  \/ PostTask
  \/ DrainTasks
  \/ DrainTasksAgain
  \/ DrainTasksReturn
  \/ FlushPopAll
  \/ FlushRunTask
  \/ FlushReturn

SpecDrain ==
  Init /\ [][NextDrain]_vars

\* ================================================================ claims
\* The legal-transitions graph as the specification draws it.
LegalEdges ==
  { <<INITIAL, QUEUED>>, <<INITIAL, CANCELLED>>,
    <<QUEUED, ASSIGNED>>, <<QUEUED, CANCELLED>>,
    <<ASSIGNED, COMPLETED>>, <<ASSIGNED, CANCELLED>>,
    <<CANCELLED, COMPLETED>> }

\* The Task object of t no longer exists: it was rejected by Push, or a
\* worker popped it and finished its loop iteration.
Destroyed(t) ==
  /\ push_ret[t] # NoRet
  /\ \A i \in 1..Len(queue) : queue[i] # t
  /\ \A w \in Workers : wtask[w] # t

\* A worker is between its transition to ASSIGNED and its transition to
\* COMPLETED, that is, inside or around Run().
Busy(w) ==
  wpc[w] \in {"run", "complete"}

\* C1: every state change of a TaskState follows an edge of the legal graph;
\* a TryUpdateState whose request is an edge installs and returns the new
\* state, any other request leaves the state as it was and returns it.
C1_WalkOnLegalGraph ==
  [][\A t \in Tasks :
       /\ state'[t] # state[t] => <<state[t], state'[t]>> \in LegalEdges
       /\ (ts_call'.op = "TryUpdateState" /\ ts_call'.task = t) =>
            IF <<state[t], ts_call'.arg>> \in LegalEdges
              THEN state'[t] = ts_call'.arg /\ ts_call'.ret = ts_call'.arg
              ELSE state'[t] = state[t] /\ ts_call'.ret = state[t]]_vars

\* C1 witness: a TaskState that walked to COMPLETED was asked for QUEUED
\* and answered COMPLETED.
C1_Witness ==
  /\ ts_call.op = "TryUpdateState"
  /\ ts_call.pre = COMPLETED
  /\ ts_call.arg = QUEUED
  /\ ts_call.ret = COMPLETED
  /\ state[ts_call.task] = COMPLETED

\* C2: every task that Push accepted eventually has state COMPLETED, under
\* fair scheduling of the worker threads, cancelled or not.
C2_AcceptedEventuallyCompleted ==
  \A t \in Tasks : (push_ret[t] = "true") ~> (state[t] = COMPLETED)

\* C2 witness: an accepted task that was cancelled is COMPLETED.
C2_Witness ==
  \E t \in Tasks :
    /\ push_ret[t] = "true"
    /\ cancelled_from[t] # NoRet
    /\ state[t] = COMPLETED

C4_Original ==
  \A t \in Tasks :
    cancelled_from[t] # NoRet =>
      /\ run_count[t] = 0
      /\ Destroyed(t) => done_count[t] = 1

\* C4 amended: when a cancel returns 0 and takes the task to CANCELLED before
\* a worker made it ASSIGNED, the work callback is never invoked and done
\* fires exactly when the wrapping task is destroyed.
C4_CancelBeforeAssignedSkipsRun ==
  \A t \in Tasks :
    cancelled_from[t] \in {INITIAL, QUEUED} =>
      /\ run_count[t] = 0
      /\ done_count[t] = IF Destroyed(t) THEN 1 ELSE 0

\* C4 witness: a request cancelled with code 0 while QUEUED went through a
\* worker, never ran, and its done notification has fired.
C4_Witness ==
  \E t \in Tasks :
    /\ cancelled_from[t] = QUEUED
    /\ cancel_ret = UV_OK
    /\ Destroyed(t)
    /\ run_count[t] = 0
    /\ done_count[t] = 1

\* C5: a task cancelled while QUEUED: the cancel returns true, no
\* worker calls Run for it, the worker that pops it calls NotifyOfCompletion
\* exactly once, and its TaskState ends COMPLETED.
C5_CancelledWhileQueued ==
  /\ [](\A t \in Tasks :
          cancelled_from[t] = QUEUED =>
            /\ run_count[t] = 0
            /\ notify_count[t] <= 1
            /\ Destroyed(t) => (notify_count[t] = 1 /\ state[t] = COMPLETED))
  /\ [][\A t \in Tasks :
          (HandleCancel(t) /\ state[t] = QUEUED) =>
            (cancel_ret' = "true" /\ state'[t] = CANCELLED)]_vars

\* C5 witness: a task cancelled while QUEUED was popped, skipped, notified
\* once and is COMPLETED.
C5_Witness ==
  \E t \in Tasks :
    /\ cancelled_from[t] = QUEUED
    /\ Destroyed(t)
    /\ run_count[t] = 0
    /\ notify_count[t] = 1
    /\ state[t] = COMPLETED

\* C6: Cancel returns true iff the state right after the attempt is
\* CANCELLED: false from COMPLETED (which stays), true from CANCELLED (which
\* stays) and from INITIAL, QUEUED and ASSIGNED.
C6_CancelResult ==
  ts_call.op = "Cancel" =>
    /\ ts_call.ret <=> state[ts_call.task] = CANCELLED
    /\ ts_call.pre = COMPLETED =>
         (~ts_call.ret /\ state[ts_call.task] = COMPLETED)
    /\ ts_call.pre \in {INITIAL, QUEUED, ASSIGNED, CANCELLED} =>
         (ts_call.ret /\ state[ts_call.task] = CANCELLED)

\* C6 witness: a Cancel on a COMPLETED TaskState returned false.
C6_Witness ==
  /\ ts_call.op = "Cancel"
  /\ ts_call.pre = COMPLETED
  /\ ts_call.ret = FALSE
  /\ \E t \in Tasks : state[t] = CANCELLED

\* C7 as stated: a task that was in the queue when Stop ran (and that nobody
\* cancelled) is never run and its TaskState stays QUEUED.
C7_Original ==
  \A t \in at_stop :
    cancelled_from[t] = NoRet => (state[t] = QUEUED /\ run_count[t] = 0)

\* C7 amended: on teardown the workers still pop the tasks that are in the
\* queue when Stop is called: once every worker is joined the queue is empty
\* and every accepted task is COMPLETED, having been run once unless it was
\* cancelled while QUEUED.
C7_TeardownDrainsQueue ==
  tp_pc = "destroyed" =>
    /\ queue = <<>>
    /\ \A t \in Tasks :
         push_ret[t] = "true" =>
           /\ state[t] = COMPLETED
           /\ run_count[t] = IF cancelled_from[t] = QUEUED THEN 0 ELSE 1

\* C7 witness: the pool is torn down and a task that was queued at Stop ran.
C7_Witness ==
  /\ tp_pc = "destroyed"
  /\ \E t \in at_stop : run_count[t] = 1 /\ state[t] = COMPLETED

\* C8: at every instant 0 <= length <= outstanding_tasks; and when
\* BlockingDrain returns, outstanding_tasks is 0 and every task pushed so far
\* is COMPLETED.
C8_QueueCounters ==
  /\ [](0 <= Len(queue) /\ Len(queue) <= outstanding_tasks)
  /\ [][BlockingDrainReturn =>
          /\ outstanding_tasks' = 0
          /\ \A t \in Tasks :
               push_ret'[t] = "true" => state'[t] = COMPLETED]_vars

\* C8 witness: BlockingDrain has returned after every task was pushed and
\* completed.
C8_Witness ==
  /\ drain_pc = "returned"
  /\ outstanding_tasks = 0
  /\ \A t \in Tasks : push_ret[t] = "true" /\ state[t] = COMPLETED

\* C9: Push returns true before Stop and false after it; a Push that returns
\* false leaves the queue, the outstanding counter and the task's state as
\* they were.
C9_PushResult ==
  [][\A t \in Tasks : Post(t) =>
       /\ push_ret'[t] = IF stopped THEN "false" ELSE "true"
       /\ push_ret'[t] = "false" =>
            /\ queue' = queue
            /\ outstanding_tasks' = outstanding_tasks
            /\ state'[t] = state[t]
       /\ push_ret'[t] = "true" =>
            /\ queue' = Append(queue, t)
            /\ outstanding_tasks' = outstanding_tasks + 1]_vars

\* C9 witness: one push was accepted before Stop and one rejected after it.
C9_Witness ==
  /\ stopped
  /\ \E t, u \in Tasks :
       /\ push_ret[t] = "true"
       /\ push_ret[u] = "false"
       /\ state[u] = INITIAL

C11_RunnerLivesWhileRegistered ==
  (loop_pc # "abort" /\ loop_caller # "shutdown") =>
    /\ (per_isolate /\ flush_tasks) <=> (regs > unregs)
    /\ (~per_isolate /\ ~flush_tasks) <=> (regs = unregs)
    /\ per_isolate => ref_count = regs - unregs

\* Registered twice and unregistered once: the runner is alive with one
\* reference left.
C11_Witness ==
  /\ regs = 2
  /\ unregs = 1
  /\ per_isolate
  /\ flush_tasks
  /\ ref_count = 1
\* C12: a FlushForegroundTasksInternal call returns true exactly when that
\* call armed at least one delayed timer or ran at least one foreground
\* task; a flush that follows a flush with no PostTask or PostDelayedTask
\* made since that earlier flush began returns false.
C12_FlushResult ==
  loop_pc = "ret" =>
    /\ (flush_ret = "true") <=> (flush_armed > 0 \/ flush_ran > 0)
    /\ flush_ret \in {"true", "false"}
    /\ (prev_quiet /\ ~post_seen) => flush_ret = "false"

\* A flush that did work is followed, with no post in between, by a flush
\* that returned false.
C12_Witness ==
  /\ loop_pc = "ret"
  /\ prev_quiet
  /\ ~post_seen
  /\ flush_ret = "false"
  /\ executed # <<>>
  /\ scheduled_delayed_tasks # <<>>
\* A sequence of task numbers in strictly increasing order.  Tasks are
\* numbered in the order of their Push, so this is push order.
InPushOrder(s) ==
  \A i, j \in DOMAIN s : i < j => s[i] < s[j]

\* The foreground tasks run so far that were posted with PostTask.
ExecutedPosted ==
  SelectSeq(executed, LAMBDA t : t \notin delayed_posted)

\* C13: tasks leave each queue in push order.  In the thread pool the tasks
\* still queued are in push order and every accepted task already handed to
\* a BlockingPop caller was pushed before each of them.  In the isolate's
\* runner the tasks run so far, then the tasks of the flush in progress, then
\* the tasks still queued are in push order, within one flush and across
\* flushes.
C13_PushOrder ==
  /\ InPushOrder(queue)
  /\ \A t \in Tasks : \A i \in DOMAIN queue :
       (push_ret[t] = "true" /\ \A k \in DOMAIN queue : queue[k] # t)
         => t < queue[i]
  /\ InPushOrder(ExecutedPosted \o popped_tasks \o foreground_tasks)

\* Two worker tasks were queued together and the first is with a worker; two
\* foreground tasks were run, the second by a later flush than the first.
C13_Witness ==
  /\ Len(queue) = 1
  /\ \E w \in Workers : wtask[w] # NoTask /\ wtask[w] < queue[1]
  /\ Len(executed) = 2
  /\ flush_ran = 1
\* A delay of d milliseconds rounded to whole seconds, halves up.
RoundHalfUp(d) ==
  IF d % 1000 >= 500 THEN d \div 1000 + 1 ELSE d \div 1000

\* The timeouts of the timers started so far.
StartedTimeouts ==
  {sched_timeout, flush_timeout} \ {NoTimer}

\* C14: for every delay from 0 to MaxDelayMs milliseconds, ScheduleTask::Run
\* and the foreground flush both start the timer with the delay rounded to
\* whole seconds, halves up, times 1000 ms: 0.4 s gives 0, 0.5 s gives 1000,
\* 1.499 s gives 1000, 1.5 s gives 2000; the timeout is a multiple of 1000.
C14_TimerTimeout ==
  \A ms \in StartedTimeouts :
    /\ ms = RoundHalfUp(delay_in_seconds) * 1000
    /\ ms % 1000 = 0
    /\ delay_in_seconds = 400 => ms = 0
    /\ delay_in_seconds = 500 => ms = 1000
    /\ delay_in_seconds = 1499 => ms = 1000
    /\ delay_in_seconds = 1500 => ms = 2000

\* A delay of 1.5 s reached both places and both timers were started with
\* 2000 ms.
C14_Witness ==
  /\ delay_in_seconds = 1500
  /\ sched_timeout = 2000
  /\ flush_timeout = 2000
\* C15: NodePlatform::DrainTasks starts each of its flushes only when no
\* worker task is outstanding in the thread pool, and returns only right
\* after a flush that returned false, having armed and run nothing.
C15_Original ==
  [][/\ (DrainTasks \/ DrainTasksAgain) => outstanding_tasks = 0
     /\ DrainTasksReturn =>
          (flush_ret = "false" /\ flush_armed = 0 /\ flush_ran = 0)]_vars
\* C16: the CHECK_EQ on TryUpdateState(COMPLETED) in Worker::_Run never
\* fails, however Cancel() calls interleave with the worker's steps: no
\* worker is stopped by a failed check, and every task a worker is past that
\* check with, or has let go of, is COMPLETED, never CANCELLED or ASSIGNED.
C16_CompletedAlwaysReached ==
  /\ \A w \in Workers : wpc[w] # "abort"
  /\ \A w \in Workers :
       wpc[w] \in {"notify", "destroy"} => state[wtask[w]] = COMPLETED
  /\ \A t \in Tasks :
       (Destroyed(t) /\ push_ret[t] = "true") => state[t] = COMPLETED

\* One task was cancelled while QUEUED and another while ASSIGNED; a worker
\* finished with both and both are COMPLETED.
C16_Witness ==
  /\ \E t \in Tasks :
       cancelled_from[t] = ASSIGNED /\ Destroyed(t) /\ state[t] = COMPLETED
  /\ \E t \in Tasks :
       cancelled_from[t] = QUEUED /\ Destroyed(t) /\ state[t] = COMPLETED
\* C17: once the LibuvTask wrapping a submitted request has been destroyed
\* (done(req) was called), req->reserved[0] holds no cookie, so that
\* uv_executor_cancel returns UV_EINVAL from then on; this under every
\* interleaving of uv_executor_submit with the worker, and for a submit
\* whose Push was rejected.
C17_Original ==
  \A t \in Tasks : done_count[t] > 0 => ~reserved[t]
Elems(s) ==
  {s[i] : i \in DOMAIN s}

C20_Shutdown ==
  /\ []((~flush_tasks /\ regs > 0) =>
          /\ pre_shutdown \subseteq Elems(executed)
          /\ scheduled_delayed_tasks = <<>>
          /\ ~per_isolate)
  /\ [][~flush_tasks => executed' = executed]_vars
  /\ [][ShutdownFinish =>
          (flush_ret = "false" /\ flush_armed = 0 /\ flush_ran = 0 /\
           scheduled_delayed_tasks' = <<>> /\ ~flush_tasks')]_vars
  /\ [][\A t \in delayed_posted :
          (t \notin Elems(executed) /\ t \in Elems(executed')) =>
            (flush_tasks /\ loop_pc = "idle" /\
             \E i \in DOMAIN scheduled_delayed_tasks :
               scheduled_delayed_tasks[i].task = t)]_vars
  /\ [][PerIsolateDestructor => UNCHANGED <<per_isolate, ref_count, flush_tasks, foreground_tasks,
                      foreground_delayed_tasks, scheduled_delayed_tasks,
                      loop_pc, loop_caller, popped_tasks, executed>>]_vars

\* The runner was shut down and destroyed: task 1, posted before, was run;
\* delayed task 2 had its timer started by Shutdown's flush and was dropped
\* without being run.
C20_Witness ==
  /\ ~flush_tasks
  /\ ~per_isolate
  /\ dtor_done
  /\ pre_shutdown = {1}
  /\ executed = <<1>>
  /\ delayed_posted = {2}
  /\ foreground_delayed_tasks = <<>>
  /\ scheduled_delayed_tasks = <<>>

\* ------------------------------------------------ DelayedTaskScheduler
\* The worker runner's scheduler thread: tasks_ is a FIFO of commands
\* (ScheduleTask, StopTask) drained by FlushTasks on the scheduler's loop,
\* timers_ holds the armed timers, RunTask posts a due task to the pool.
NumDTasks == 3
DTasks == 1..NumDTasks

ScheduleCmd(t) == [kind |-> "schedule", task |-> t]
StopCmd == [kind |-> "stop", task |-> NoTask]

nonschedvars == <<state, ts_call, poolvars, runnervars, delayvars, lockvars,
                 timer_task>>

\* uv_async_send(&flush_tasks_): before Run() initialised the handle the call
\* reads an uninitialised uv_async_t (it wakes nobody, or the process dies);
\* after uv_close the handle's callback is never called again.
AsyncSend(pc) ==
  IF pc = "unstarted" THEN {[pc |-> "unstarted", sent |-> FALSE],
                            [pc |-> CRASH, sent |-> FALSE]}
  ELSE {[pc |-> pc, sent |-> ~flush_closed /\ pc # "exited"]}

\* TakeTimerTask with the timer erased from nothing.
TakeTimerTaskKeepsTimer(set, timer) ==
  set

\* DelayedTaskScheduler::TakeTimerTask: stop and close the timer and erase it
\* from timers_; the value is what is left of timers_.
TakeTimerTask(set, timer) ==
  set \ {timer}

\* StopTask::Run's loop: TakeTimerTask for every timer of a copy of timers_.
RECURSIVE StopTaskTakeAll(_, _)
StopTaskTakeAll(set, copy) ==
  IF copy = {} THEN set
  ELSE LET timer == CHOOSE x \in copy : TRUE
       IN StopTaskTakeAll(TakeTimerTask(set, timer), copy \ {timer})

\* DelayedTaskScheduler::Start: the thread runs Run() up to uv_run.
SchedulerStart ==
  /\ sched_pc = "unstarted"
  /\ sched_pc' = "idle"
  /\ UNCHANGED <<sched_tasks, async_sent, flush_closed, timers, sched_posted,
                 sched_dropped, dnext, stop_pushed, before_stop>>
  /\ UNCHANGED nonschedvars

\* DelayedTaskScheduler::PostDelayedTask, called from any thread.
SchedulerPostDelayedTask ==
  /\ sched_pc # CRASH
  /\ dnext < NumDTasks
  /\ dnext' = dnext + 1
  /\ sched_tasks' = Append(sched_tasks, ScheduleCmd(dnext + 1))
  /\ \E r \in AsyncSend(sched_pc) :
       /\ sched_pc' = r.pc
       /\ async_sent' = (async_sent \/ r.sent)
  /\ UNCHANGED <<flush_closed, timers, sched_posted, sched_dropped,
                 stop_pushed, before_stop>>
  /\ UNCHANGED nonschedvars

\* DelayedTaskScheduler::Stop (WorkerThreadsTaskRunner::Shutdown calls it).
SchedulerStop ==
  /\ sched_pc # CRASH
  /\ ~stop_pushed
  /\ stop_pushed' = TRUE
  /\ before_stop' = 1..dnext
  /\ sched_tasks' = Append(sched_tasks, StopCmd)
  /\ \E r \in AsyncSend(sched_pc) :
       /\ sched_pc' = r.pc
       /\ async_sent' = (async_sent \/ r.sent)
  /\ UNCHANGED <<flush_closed, timers, sched_posted, sched_dropped, dnext>>
  /\ UNCHANGED nonschedvars

\* The loop calls FlushTasks for a pending wakeup of flush_tasks_.
FlushTasks ==
  /\ sched_pc = "idle"
  /\ async_sent
  /\ ~flush_closed
  /\ sched_pc' = "flush"
  /\ async_sent' = FALSE
  /\ UNCHANGED <<sched_tasks, flush_closed, timers, sched_posted,
                 sched_dropped, dnext, stop_pushed, before_stop>>
  /\ UNCHANGED nonschedvars

\* ScheduleTask::Run: a new timer holding the task is started and recorded.
ScheduleTaskRunTimer ==
  /\ sched_pc = "flush"
  /\ sched_tasks # <<>>
  /\ Head(sched_tasks).kind = "schedule"
  /\ sched_tasks' = Tail(sched_tasks)
  /\ timers' = timers \cup {Head(sched_tasks).task}
  /\ UNCHANGED <<sched_pc, async_sent, flush_closed, sched_posted,
                 sched_dropped, dnext, stop_pushed, before_stop>>
  /\ UNCHANGED nonschedvars

\* StopTask::Run: every timer's task is taken and destroyed, then
\* flush_tasks_ is closed.
StopTaskRun ==
  /\ sched_pc = "flush"
  /\ sched_tasks # <<>>
  /\ Head(sched_tasks).kind = "stop"
  /\ sched_tasks' = Tail(sched_tasks)
  /\ timers' = StopTaskTakeAll(timers, timers)
  /\ sched_dropped' = sched_dropped \cup timers
  /\ flush_closed' = TRUE
  /\ async_sent' = FALSE
  /\ UNCHANGED <<sched_pc, sched_posted, dnext, stop_pushed, before_stop>>
  /\ UNCHANGED nonschedvars

\* FlushTasks' loop ends when tasks_.Pop() returns nothing.
FlushTasksReturn ==
  /\ sched_pc = "flush"
  /\ sched_tasks = <<>>
  /\ sched_pc' = "idle"
  /\ UNCHANGED <<sched_tasks, async_sent, flush_closed, timers, sched_posted,
                 sched_dropped, dnext, stop_pushed, before_stop>>
  /\ UNCHANGED nonschedvars

\* RunTask: a timer fires; its task is taken and posted to the Threadpool.
RunTask(timer) ==
  /\ sched_pc = "idle"
  /\ timer \in timers
  /\ timers' = TakeTimerTask(timers, timer)
  /\ sched_posted' = sched_posted \cup {timer}
  /\ UNCHANGED <<sched_pc, sched_tasks, async_sent, flush_closed,
                 sched_dropped, dnext, stop_pushed, before_stop>>
  /\ UNCHANGED nonschedvars

\* Run(): uv_run returns once no handle is active; the loop is closed.
SchedulerLoopExit ==
  /\ sched_pc = "idle"
  /\ flush_closed
  /\ timers = {}
  /\ sched_pc' = "exited"
  /\ UNCHANGED <<sched_tasks, async_sent, flush_closed, timers, sched_posted,
                 sched_dropped, dnext, stop_pushed, before_stop>>
  /\ UNCHANGED nonschedvars

NextSched ==
  \/ SchedulerStart
  \/ SchedulerPostDelayedTask
  \/ SchedulerStop
  \/ FlushTasks
  \/ ScheduleTaskRunTimer
  \/ StopTaskRun
  \/ FlushTasksReturn
  \/ \E timer \in DTasks : RunTask(timer)
  \/ SchedulerLoopExit

SpecSched == Init /\ [][NextSched]_vars

\* C21: when the scheduler thread processes the stop command, every timer
\* still in timers_ is taken out and its task destroyed, so timers_ is empty
\* right after the command; a task taken that way is never posted to the
\* Threadpool, and every task scheduled before the stop command has by then
\* either been posted by its timer or been dropped.
C21_StopDropsTimers ==
  /\ [](sched_dropped \cap sched_posted = {})
  /\ [](sched_dropped \cap timers = {})
  /\ [](flush_closed => (before_stop \subseteq (sched_posted \cup sched_dropped)))
  /\ [][StopTaskRun => ((timers' = {}) /\ (sched_dropped' = sched_dropped \cup timers))]_vars

C21_Witness ==
  /\ flush_closed
  /\ sched_dropped # {}
  /\ sched_posted # {}
  /\ sched_dropped \subseteq before_stop

\* C22: once the scheduler thread has processed the stop command it arms no
\* timer and posts no task to the Threadpool.
C22_Original ==
  [][flush_closed => ((timers' \subseteq timers) /\ (sched_posted' = sched_posted))]_vars

\* C23: no foreground task is run while per_isolate_mutex_ is held, the
\* tasks run by the Shutdown flush of UnregisterIsolate included.
C23_Original ==
  [][FlushRunTask => ~PerIsolateMutexHeld]_vars

\* C24: when the timer callback comes to DeleteFromScheduledTasks after the
\* task has run, the task's entry is in scheduled_delayed_tasks_, so
\* CHECK_NE(it, end) passes and the entry is erased.
C24_Original ==
  [][DeleteFromScheduledTasks =>
       ((FindScheduled(timer_task) # {}) /\ (loop_pc' = "idle"))]_vars

====
